---- MODULE Spec2Model ----
(***************************************************************************)
(* The quai block-difficulty monitor: three near-duplicate programs.       *)
(*   "main"      src/main.go            persists and pushes metrics        *)
(*   "part_001"  src/unnamed/part_001   persists only                      *)
(*   "part_000"  src/unnamed/part_000   pushes metrics only, handles       *)
(*                                      SIGINT/SIGTERM, retries the dial   *)
(* One behaviour of the model is one launch of one of the programs, from   *)
(* its parsed flags to its termination, against a chain node, a MySQL      *)
(* table and a push gateway that answer nondeterministically.              *)
(***************************************************************************)
EXTENDS Integers, Sequences, FiniteSets, TLC

\* Bounds of the model.
MaxTip == 3        \* the node reports tips 0..MaxTip
MaxStart == 1      \* the -start flag is drawn from -1..MaxStart
MaxDiff == 2       \* a header's difficulty is drawn from 1..MaxDiff (or is nil)

\* connectRPC dials at most this many times (part_000:23).
MaxDialAttempts == 5

Variants == {"main", "part_001", "part_000"}
Persisting == {"main", "part_001"}
Terminal == {"exited", "fatal", "panic", "killed"}

VARIABLES
    variant,        \* which of the three programs runs
    rpc, dsn, startHeight, pushGateway,   \* the parsed flags ("" = not given)
    pc,             \* position of main: "flags", "dial", "opendb", "watermark",
                    \* "idle" (blocked on the ticker), "loop" (about to process
                    \* `height`), "blocked" (inside an RPC call that never
                    \* returns), or a member of Terminal
    exitCode,       \* process exit status, -1 while running
    i,              \* connectRPC's attempt counter
    err,            \* the error of the latest dial: 0 is nil, k > 0 is the
                    \* failure of the k-th dial of the run
    lastHeight,     \* the watermark (-1 before it is initialised)
    currentHeight,  \* the tip observed by the latest cycle
    tipQuery,       \* outcome of the latest cycle's BlockNumber call:
                    \* "none" (no cycle yet), "err", "ok", "pending" (the
                    \* call has not returned)
    height,         \* the loop variable of the gap walk
    gauge,          \* value of the prometheus gauge (0 when never set)
    db,             \* rows of quai_block_difficulty, in insertion order
    tickerC,        \* ticks buffered in ticker.C (capacity 1)
    quit,           \* signals buffered in the quit channel (capacity 1)
    storeUp,        \* whether the MySQL server behind -dsn can be reached
    \* history variables
    dials,          \* how many times ethclient.Dial has been called
    w0,             \* the watermark as initialised at startup
    launchQuery,    \* outcome of the launch-time BlockNumber call:
                    \* "none" (not issued), "err", "ok"
    launchTip,      \* the tip that call returned (-1 when it returned none)
    rerecorded,     \* outcome of the run's latest INSERT of a block number the
                    \* table already held: "none" (no such insert), "ok", "err"
    cycleW,         \* the watermark when the latest cycle started
    calls,          \* collaborator calls of the latest cycle that returned, in
                    \* order
    fetched         \* heights the gap walks of the run passed to HeaderByNumber,
                    \* in order (main.go and part_001)

vars == <<variant, rpc, dsn, startHeight, pushGateway, storeUp, pc, exitCode, i, err, dials,
          lastHeight,
          currentHeight, tipQuery, height, gauge, db, tickerC, quit,
          w0, launchQuery, launchTip, rerecorded, cycleW, calls, fetched>>

flags == <<variant, rpc, dsn, startHeight, pushGateway>>

----------------------------------------------------------------------------
\* The environment's answers.

\* BlockNumber: an error, or any tip.
TipValues == 0..MaxTip

\* HeaderByNumber(h): an error, or a header.  The node decides which block
\* number and which difficulty (possibly none) the header carries.
Headers(h) ==
    {[number |-> n, difficulty |-> d, nilDifficulty |-> FALSE] :
        n \in {m \in {h, h - 1} : m >= 0}, d \in 1..MaxDiff}
    \cup {[number |-> h, difficulty |-> 0, nilDifficulty |-> TRUE]}

\* The table when the process is launched: empty, or holding the row an
\* earlier launch wrote for height 1.
PriorTables == {<< >>, <<[block_number |-> 1, difficulty |-> 1]>>}

\* Push(): fails when no gateway address is given, else succeeds or fails.
PushOutcomes(addr) == IF addr = "" THEN {FALSE} ELSE BOOLEAN

\* An entry of `calls`: the operation, the height it was made for, whether it
\* succeeded, and d: the difficulty a fetched header carried (0: none) or the
\* value the gauge was set to; d is 0 for every other entry.
Call(op, h, ok) == [op |-> op, h |-> h, ok |-> ok, d |-> 0]
Fetched(h, hdr) == [op |-> "HeaderAt", h |-> h, ok |-> TRUE, d |-> hdr.difficulty]
GaugeSet(h, v) == [op |-> "SetGauge", h |-> h, ok |-> TRUE, d |-> v]

----------------------------------------------------------------------------
Init ==
    /\ variant \in Variants
    /\ rpc \in {"", "url"}
    /\ dsn \in IF variant \in Persisting THEN {"", "dsn"} ELSE {""}
    /\ startHeight \in IF variant \in Persisting THEN -1..MaxStart ELSE {-1}
    /\ pushGateway \in IF variant = "part_001" THEN {""} ELSE {"", "gw"}
    /\ pc = "flags"
    /\ exitCode = -1
    /\ i = 0
    /\ err = 0
    /\ dials = 0
    /\ lastHeight = -1
    /\ currentHeight = 0
    /\ tipQuery = "none"
    /\ height = 0
    /\ gauge = 0
    /\ storeUp \in IF variant \in Persisting THEN BOOLEAN ELSE {TRUE}
    /\ db \in IF variant \in Persisting /\ storeUp THEN PriorTables ELSE {<< >>}
    /\ tickerC = 0
    /\ quit = 0
    /\ w0 = -1
    /\ launchQuery = "none"
    /\ launchTip = -1
    /\ rerecorded = "none"
    /\ cycleW = -1
    /\ calls = << >>
    /\ fetched = << >>

----------------------------------------------------------------------------
\* Startup.

Fatal ==                       \* log.Fatalf: os.Exit(1)
    /\ pc' = "fatal"
    /\ exitCode' = 1

\* The required-flag test of each program.
MissingRequired ==
    IF variant = "part_000" THEN rpc = "" \/ pushGateway = ""
    ELSE rpc = "" \/ dsn = ""

CheckFlags ==
    /\ pc = "flags"
    /\ IF MissingRequired THEN Fatal ELSE pc' = "dial" /\ exitCode' = exitCode
    /\ UNCHANGED <<flags, storeUp, i, err, dials, lastHeight, currentHeight, tipQuery, height, gauge, db,
                   tickerC, quit, w0, launchQuery, launchTip, rerecorded,
                   cycleW, calls, fetched>>

\* main.go and part_001 dial once and fail fast.
Dial ==
    /\ pc = "dial"
    /\ variant \in Persisting
    /\ dials' = dials + 1
    /\ \E ok \in BOOLEAN :
          IF ok THEN pc' = "opendb" /\ exitCode' = exitCode /\ err' = 0
          ELSE Fatal /\ err' = dials + 1
    /\ UNCHANGED <<flags, storeUp, i, lastHeight, currentHeight, tipQuery, height, gauge, db,
                   tickerC, quit, w0, launchQuery, launchTip, rerecorded,
                   cycleW, calls, fetched>>

\* part_000: one iteration of connectRPC's loop.  A successful dial returns the
\* client and main goes on to create the gauge, the ticker and the quit
\* channel; a failed dial counts, and the last one makes main exit fatally.
\* Mutant: the loop condition is off by one.
RetryAgain_Inclusive(n) == n <= MaxDialAttempts

\* connectRPC's loop condition: i < 5.
RetryAgain(n) == n < MaxDialAttempts

ConnectRPC ==
    /\ pc = "dial"
    /\ variant = "part_000"
    /\ RetryAgain(i)
    /\ dials' = dials + 1
    /\ \E ok \in BOOLEAN :
          IF ok
          THEN pc' = "idle" /\ exitCode' = exitCode /\ i' = i /\ err' = 0
          ELSE /\ i' = i + 1
               /\ err' = dials + 1
               /\ IF RetryAgain(i + 1)
                  THEN pc' = pc /\ exitCode' = exitCode
                  ELSE Fatal
    /\ UNCHANGED <<flags, storeUp, lastHeight, currentHeight, tipQuery, height, gauge, db,
                   tickerC, quit, w0, launchQuery, launchTip, rerecorded,
                   cycleW, calls, fetched>>

\* sql.Open("mysql", dsn) parses the DSN and prepares a handle; it opens no
\* connection (nothing pings the server), so its outcome is that of the parse
\* alone, whether or not the server can be reached.
OpenDB ==
    /\ pc = "opendb"
    /\ \E ok \in BOOLEAN :
          IF ok THEN pc' = "watermark" /\ exitCode' = exitCode ELSE Fatal
    /\ UNCHANGED <<flags, storeUp, i, err, dials, lastHeight, currentHeight, tipQuery, height, gauge, db,
                   tickerC, quit, w0, launchQuery, launchTip, rerecorded,
                   cycleW, calls, fetched>>

\* Mutant: the flag is used only when it is positive.
UsesStartFlag_Positive(start) == start > 0

\* The starting height: the -start flag when it is >= 0, else the tip.
UsesStartFlag(start) == start >= 0

InitWatermark ==
    /\ pc = "watermark"
    /\ \/ /\ UsesStartFlag(startHeight)
          /\ lastHeight' = startHeight
          /\ pc' = "idle" /\ exitCode' = exitCode
          /\ UNCHANGED <<launchQuery, launchTip>>
       \/ /\ ~UsesStartFlag(startHeight)
          /\ \/ /\ launchQuery' = "err"                  \* BlockNumber failed
                /\ Fatal
                /\ UNCHANGED <<lastHeight, launchTip>>
             \/ \E t \in TipValues :
                   /\ launchQuery' = "ok"
                   /\ launchTip' = t
                   /\ lastHeight' = t
                   /\ pc' = "idle" /\ exitCode' = exitCode
    /\ w0' = lastHeight'
    /\ UNCHANGED <<flags, storeUp, i, err, dials, currentHeight, tipQuery, height, gauge, db,
                   tickerC, quit, rerecorded, cycleW, calls, fetched>>

----------------------------------------------------------------------------
\* The polling loop of main.go and part_001.

\* Mutant: the channel queues every tick.
TimerFire_Queue ==
    /\ pc \in {"idle", "loop", "blocked"}
    /\ tickerC' = tickerC + 1
    /\ UNCHANGED <<flags, storeUp, pc, exitCode, i, err, dials, lastHeight, currentHeight, tipQuery, height,
                   gauge, db, quit, w0, launchQuery, launchTip, rerecorded,
                   cycleW, calls, fetched>>

\* The ticker delivers a tick: a send on ticker.C, which holds one tick and
\* drops the tick when one is already waiting.
TimerFire ==
    /\ pc \in {"idle", "loop", "blocked"}
    /\ tickerC = 0
    /\ tickerC' = 1
    /\ UNCHANGED <<flags, storeUp, pc, exitCode, i, err, dials, lastHeight, currentHeight, tipQuery, height,
                   gauge, db, quit, w0, launchQuery, launchTip, rerecorded,
                   cycleW, calls, fetched>>

\* Mutant: the tip is compared for inequality.
GapOpen_NotEqual(cur, last) == cur # last

\* currentHeight.Cmp(lastHeight) > 0
GapOpen(cur, last) == cur > last

\* Mutant: the walk starts at the watermark itself.
FirstHeight_Same(last) == last

\* Mutant: the walk steps by two.
NextHeight_Skip(h) == h + 2

\* The gap walk: for height := lastHeight+1; height <= currentHeight; height++
FirstHeight(last) == last + 1
InGap(h, cur) == h <= cur
NextHeight(h) == h + 1

\* Mutant: a failed tip query is fatal, as it is at launch.
TipFailed_Fatal ==
    /\ tipQuery' = "err"
    /\ currentHeight' = 0
    /\ calls' = << >>
    /\ pc' = "fatal"
    /\ exitCode' = 1
    /\ UNCHANGED <<height, lastHeight, gauge, db, fetched>>

\* The tip query of a cycle failed: log.Printf, continue.
TipFailed ==
    /\ tipQuery' = "err"
    /\ currentHeight' = 0
    /\ calls' = << >>
    /\ UNCHANGED <<pc, exitCode, height, lastHeight, gauge, db, fetched>>

\* The node never answers the tip query.  ctx is context.Background(), which
\* carries no deadline: BlockNumber does not return.
TipHangs ==
    /\ tipQuery' = "pending"
    /\ currentHeight' = 0
    /\ calls' = << >>
    /\ pc' = "blocked"
    /\ UNCHANGED <<exitCode, height, lastHeight, gauge, db, fetched>>

\* One tick of the persisting programs, up to the entry of the gap walk: the
\* tip query, and the comparison with the watermark.
Tick ==
    /\ pc = "idle"
    /\ variant \in Persisting
    /\ tickerC = 1
    /\ tickerC' = 0
    /\ cycleW' = lastHeight
    /\ \/ TipFailed
       \/ TipHangs
       \/ \E t \in TipValues :
             /\ tipQuery' = "ok"
             /\ currentHeight' = t
             /\ calls' = << >>
             /\ IF GapOpen(t, lastHeight)
                THEN /\ height' = FirstHeight(lastHeight)
                     /\ IF InGap(FirstHeight(lastHeight), t)
                        THEN pc' = "loop" /\ lastHeight' = lastHeight
                        ELSE pc' = "idle" /\ lastHeight' = t
                ELSE UNCHANGED <<pc, height, lastHeight>>
             /\ UNCHANGED <<exitCode, gauge, db, fetched>>
    /\ UNCHANGED <<flags, storeUp, i, err, dials, quit, w0, launchQuery, launchTip, rerecorded>>

\* Mutant: the end of the walk leaves the watermark where it was.
Continue_NoAdvance ==
    /\ height' = NextHeight(height)
    /\ IF InGap(NextHeight(height), currentHeight)
       THEN UNCHANGED <<pc, lastHeight>>
       ELSE pc' = "idle" /\ lastHeight' = lastHeight
    /\ exitCode' = exitCode

\* `continue`, or the end of the loop body: step the loop variable; when the
\* walk is over, the watermark becomes the observed tip.
Continue ==
    /\ height' = NextHeight(height)
    /\ IF InGap(NextHeight(height), currentHeight)
       THEN UNCHANGED <<pc, lastHeight>>
       ELSE pc' = "idle" /\ lastHeight' = currentHeight
    /\ exitCode' = exitCode

\* INSERT INTO quai_block_difficulty: plain insert of the header's block number
\* and difficulty.  It can succeed only when the server can be reached.
InsertRow(table, hdr) ==
    Append(table, [block_number |-> hdr.number, difficulty |-> hdr.difficulty])

\* Mutant: a failed push is fatal.
AfterInsert_PushFatal(h, hdr, done) ==
    IF variant = "main"
    THEN \E pushed \in PushOutcomes(pushGateway) :
            /\ gauge' = hdr.difficulty
            /\ calls' = done \o <<GaugeSet(h, hdr.difficulty), Call("Push", h, pushed)>>
            /\ IF pushed THEN Continue
               ELSE pc' = "fatal" /\ exitCode' = 1 /\ UNCHANGED <<height, lastHeight>>
    ELSE gauge' = gauge /\ calls' = done /\ Continue

\* What follows a successful insert: main.go sets the gauge and pushes, and
\* logs the outcome of the push; part_001 does nothing more.  Then the loop
\* goes on.
AfterInsert(h, hdr, done) ==
    IF variant = "main"
    THEN \E pushed \in PushOutcomes(pushGateway) :
            /\ gauge' = hdr.difficulty
            /\ calls' = done \o <<GaugeSet(h, hdr.difficulty), Call("Push", h, pushed)>>
            /\ Continue
    ELSE gauge' = gauge /\ calls' = done /\ Continue

\* Mutant: a failed insert is logged and the gauge is set and pushed all the
\* same.
InsertFailed_StillExports(h, hdr) ==
    /\ \E pushed \in PushOutcomes(pushGateway) :
          calls' = calls \o <<Fetched(h, hdr), Call("Insert", h, FALSE),
                              GaugeSet(h, hdr.difficulty), Call("Push", h, pushed)>>
    /\ gauge' = hdr.difficulty
    /\ db' = db
    /\ Continue

\* Mutant: a failed insert breaks out of the walk.
InsertFailed_Break(h, hdr) ==
    /\ calls' = calls \o <<Fetched(h, hdr), Call("Insert", h, FALSE)>>
    /\ UNCHANGED <<gauge, db, height, exitCode>>
    /\ pc' = "idle"
    /\ lastHeight' = currentHeight

\* A failed insert: log, continue.
InsertFailed(h, hdr) ==
    /\ calls' = calls \o <<Fetched(h, hdr), Call("Insert", h, FALSE)>>
    /\ UNCHANGED <<gauge, db>>
    /\ Continue

HasRow(table, n) == \E k \in 1..Len(table) : table[k].block_number = n

\* History of re-recordings: an insert of a block number the table holds.
NoteInsert(hdr, ok) ==
    rerecorded' = IF HasRow(db, hdr.number)
                  THEN (IF ok THEN "ok" ELSE "err")
                  ELSE rerecorded

\* A failed header fetch: log, continue.
HeaderFailed(h) ==
    /\ calls' = Append(calls, Call("HeaderAt", h, FALSE))
    /\ UNCHANGED <<gauge, db>>
    /\ Continue

\* header.WorkObjectHeader().Difficulty().Uint64() on a header without a
\* difficulty dereferences nil: the goroutine panics and the process exits 2.
NilDifficulty(h, hdr) ==
    /\ calls' = Append(calls, Fetched(h, hdr))
    /\ pc' = "panic"
    /\ exitCode' = 2
    /\ UNCHANGED <<gauge, db, height, lastHeight>>

\* The node never answers the header fetch for h: with context.Background()
\* HeaderByNumber does not return.
HeaderHangs(h) ==
    /\ pc' = "blocked"
    /\ UNCHANGED <<calls, exitCode, gauge, db, height, lastHeight>>

\* One iteration of the gap walk.
ProcessHeight ==
    /\ pc = "loop"
    /\ fetched' = Append(fetched, height)
    /\ \/ HeaderFailed(height) /\ rerecorded' = rerecorded
       \/ HeaderHangs(height) /\ rerecorded' = rerecorded
       \/ \E hdr \in Headers(height) :
             IF hdr.nilDifficulty
             THEN NilDifficulty(height, hdr) /\ rerecorded' = rerecorded
             ELSE \/ InsertFailed(height, hdr) /\ NoteInsert(hdr, FALSE)
                  \/ /\ storeUp
                     /\ db' = InsertRow(db, hdr)
                     /\ NoteInsert(hdr, TRUE)
                     /\ AfterInsert(height, hdr,
                            calls \o <<Fetched(height, hdr),
                                       Call("Insert", height, TRUE)>>)
    /\ UNCHANGED <<flags, storeUp, i, err, dials, currentHeight, tipQuery, tickerC, quit, w0,
                   launchQuery, launchTip, cycleW>>

----------------------------------------------------------------------------
\* The polling loop of part_000: select on the ticker and the quit channel.

\* Mutant: the nil test is missing.
UsableDifficulty_Always(hdr) == TRUE

\* difficultyBig != nil
UsableDifficulty(hdr) == ~hdr.nilDifficulty

\* One tick: tip query, header of the tip, gauge, push.
TickMetrics ==
    /\ pc = "idle"
    /\ variant = "part_000"
    /\ tickerC = 1
    /\ tickerC' = 0
    /\ cycleW' = lastHeight
    /\ \/ TipFailed
       \/ \E t \in TipValues :
             /\ tipQuery' = "ok"
             /\ currentHeight' = t
             /\ UNCHANGED <<pc, exitCode, height, lastHeight, db, fetched>>
             /\ \/ /\ calls' = <<Call("HeaderAt", t, FALSE)>>
                   /\ gauge' = gauge
                \/ \E hdr \in Headers(t) :
                      IF ~UsableDifficulty(hdr)
                      THEN /\ calls' = <<Fetched(t, hdr)>>
                           /\ gauge' = gauge
                      ELSE \E pushed \in PushOutcomes(pushGateway) :
                              /\ gauge' = hdr.difficulty
                              /\ calls' = <<Fetched(t, hdr),
                                            GaugeSet(t, hdr.difficulty),
                                            Call("Push", t, pushed)>>
    /\ UNCHANGED <<flags, storeUp, i, err, dials, quit, w0, launchQuery, launchTip, rerecorded>>

\* case <-quit: return from main.
Quit ==
    /\ pc = "idle"
    /\ variant = "part_000"
    /\ quit = 1
    /\ quit' = 0
    /\ pc' = "exited"
    /\ exitCode' = 0
    /\ UNCHANGED <<flags, storeUp, i, err, dials, lastHeight, currentHeight, tipQuery, height, gauge, db,
                   tickerC, w0, launchQuery, launchTip, rerecorded,
                   cycleW, calls, fetched>>

----------------------------------------------------------------------------
\* SIGINT or SIGTERM is delivered to the process.  part_000 has registered
\* the quit channel by the time it is idle: the signal is buffered there (and
\* dropped when one is already buffered).  Everywhere else the signal has its
\* default disposition and ends the process on the spot.
SignalHandled == variant = "part_000" /\ pc = "idle"

Signal ==
    /\ pc \notin Terminal
    /\ IF SignalHandled
       THEN quit = 0 /\ quit' = 1 /\ UNCHANGED <<pc, exitCode>>
       ELSE pc' = "killed" /\ exitCode' = 130 /\ quit' = quit
    /\ UNCHANGED <<flags, storeUp, i, err, dials, lastHeight, currentHeight, tipQuery, height, gauge, db,
                   tickerC, w0, launchQuery, launchTip, rerecorded,
                   cycleW, calls, fetched>>

Next ==
    \/ TimerFire
    \/ Tick
    \/ ProcessHeight
    \/ TickMetrics
    \/ Quit
    \/ Signal
    \/ CheckFlags
    \/ Dial
    \/ ConnectRPC
    \/ OpenDB
    \/ InitWatermark

Spec == Init /\ [][Next]_vars

----------------------------------------------------------------------------
\* Vocabulary of the properties.

\* The calls of the latest cycle to one collaborator operation.
CallsOf(op) == SelectSeq(calls, LAMBDA c : c.op = op)

\* The latest cycle observed a tip above the watermark it started from.
GapCycle == tipQuery = "ok" /\ currentHeight > cycleW

\* The step is a tick taken by the loop (the receive from ticker.C).
TickStep == pc = "idle" /\ tickerC = 1 /\ tickerC' = 0

\* How often height h was passed to HeaderByNumber during the run.
TimesFetched(h) == Cardinality({k \in 1..Len(fetched) : fetched[k] = h})

----------------------------------------------------------------------------
\* C1 - Gap completeness.  In main.go and part_001, the HeaderByNumber calls
\* of a cycle that observed tip t above watermark w are, at every moment of
\* the cycle, the heights w+1, w+2, ... in that order, once each, never beyond
\* t; the walk stands at the height after the last one attempted, every call
\* made for a height precedes the calls made for a later one, and when the
\* cycle is over the calls are exactly w+1 .. t.
C1_GapCompleteness ==
    (variant \in Persisting /\ GapCycle) =>
        LET hs == CallsOf("HeaderAt") IN
        /\ \A k \in 1..Len(hs) : hs[k].h = cycleW + k
        /\ Len(hs) <= currentHeight - cycleW
        /\ \A j, k \in 1..Len(calls) : j < k => calls[j].h <= calls[k].h
        /\ pc = "loop" => height = cycleW + Len(hs) + 1
        /\ pc = "idle" => Len(hs) = currentHeight - cycleW

\* A finished cycle over a gap of at least two heights.
C1_Witness ==
    /\ variant \in Persisting
    /\ pc = "idle"
    /\ GapCycle
    /\ currentHeight >= cycleW + 2
    /\ Len(CallsOf("HeaderAt")) = currentHeight - cycleW

\* C2 - Forward-only watermark.  In main.go and part_001, no step of the
\* polling loop lowers the watermark; whenever the loop is between cycles,
\* the watermark is the tip the latest cycle observed if that tip was above
\* the watermark the cycle started from (whatever failed in the cycle), and
\* is the watermark the cycle started from after any other cycle.
C2_IdleWatermark ==
    (variant \in Persisting /\ pc = "idle" /\ tipQuery # "none") =>
        lastHeight = IF GapCycle THEN currentHeight ELSE cycleW

C2_Step ==
    (variant \in Persisting /\ pc \in {"idle", "loop"}) =>
            (lastHeight' >= lastHeight /\ C2_IdleWatermark')

C2_ForwardOnlyWatermark == [][C2_Step]_vars

\* A finished cycle over a gap of at least two heights in which a header
\* fetch failed, an insert failed and nothing was persisted, and the watermark
\* is the observed tip.
C2_Witness ==
    /\ variant \in Persisting
    /\ pc = "idle"
    /\ GapCycle
    /\ currentHeight >= cycleW + 2
    /\ \A k \in 1..Len(calls) : calls[k].op = "Insert" => ~calls[k].ok
    /\ \E k \in 1..Len(calls) : calls[k].op = "Insert"
    /\ \E k \in 1..Len(calls) : calls[k].op = "HeaderAt" /\ ~calls[k].ok
    /\ lastHeight = currentHeight

\* C3 - No height skipped, none reprocessed.  In main.go and part_001,
\* whenever the loop is between cycles, each height in w0+1 .. watermark has
\* been passed to HeaderByNumber exactly once during the run and no other
\* height has been passed at all.
C3_NoSkipNoRepeat ==
    (variant \in Persisting /\ pc = "idle") =>
        /\ \A k \in 1..Len(fetched) : fetched[k] \in (w0 + 1)..lastHeight
        /\ \A h \in (w0 + 1)..lastHeight : TimesFetched(h) = 1

\* Between cycles, after two cycles that advanced and one that saw a lower tip.
C3_Witness ==
    /\ variant \in Persisting
    /\ pc = "idle"
    /\ lastHeight >= w0 + 2
    /\ cycleW > w0
    /\ tipQuery = "ok"
    /\ currentHeight < lastHeight

\* C4 - No-op on stale tip.  In main.go and part_001, a tick whose tip query
\* returns a tip not above the watermark ends the cycle in that same step:
\* no HeaderByNumber call, no insert, no gauge set, no push, the table, the
\* gauge and the watermark as they were, and the loop idle again.
C4_Step ==
    (variant \in Persisting /\ TickStep /\ tipQuery' = "ok"
            /\ currentHeight' <= lastHeight) =>
            /\ calls' = << >>
            /\ fetched' = fetched
            /\ db' = db
            /\ gauge' = gauge
            /\ lastHeight' = lastHeight
            /\ pc' = "idle"

C4_NoOpOnStaleTip == [][C4_Step]_vars

\* A cycle that observed a tip strictly below a watermark that had advanced.
C4_Witness ==
    /\ variant \in Persisting
    /\ pc = "idle"
    /\ tipQuery = "ok"
    /\ currentHeight < cycleW
    /\ cycleW > w0
    /\ calls = << >>
    /\ lastHeight = cycleW

\* The latest call of the cycle is a failed header fetch or a failed insert.
LastCallFailed(cs) ==
    /\ cs # << >>
    /\ cs[Len(cs)].op \in {"HeaderAt", "Insert"}
    /\ ~cs[Len(cs)].ok

\* C5 - Per-height isolation.  In main.go and part_001, the iteration in
\* which the header fetch or the insert for height h fails adds no row to the
\* table and hands over to height h+1 when h is below the tip, and otherwise
\* ends the cycle with the watermark at the tip; in a finished cycle every
\* height after a failed one up to the tip has been attempted; and no height
\* is passed to HeaderByNumber twice during the run.
C5_Step ==
    variant \in Persisting =>
        /\ (pc = "loop" /\ calls' # calls /\ LastCallFailed(calls')) =>
              /\ db' = db
              /\ calls'[Len(calls')].h = height
              /\ IF height < currentHeight
                 THEN pc' = "loop" /\ height' = height + 1 /\ lastHeight' = lastHeight
                 ELSE pc' = "idle" /\ lastHeight' = currentHeight
        /\ (pc' = "idle" /\ GapCycle') =>
              \A k \in 1..Len(calls') : ~calls'[k].ok =>
                 \A g \in (calls'[k].h + 1)..currentHeight' :
                    \E m \in 1..Len(calls') :
                       calls'[m].op = "HeaderAt" /\ calls'[m].h = g /\ m > k
        /\ \A h \in 0..(MaxTip + 1) : TimesFetched(h)' <= 1

C5_PerHeightIsolation == [][C5_Step]_vars

\* A finished cycle in which a fetch or an insert failed for a height below
\* the tip, a later height was persisted, and the watermark is the tip.
C5_Witness ==
    /\ variant \in Persisting
    /\ pc = "idle"
    /\ GapCycle
    /\ lastHeight = currentHeight
    /\ \E k, m \in 1..Len(calls) :
          /\ calls[k].op \in {"HeaderAt", "Insert"} /\ ~calls[k].ok
          /\ calls[m].op = "Insert" /\ calls[m].ok
          /\ calls[m].h > calls[k].h

\* C6 - Tip-query failure skips the tick.  In every program, a tick whose tip
\* query fails issues no HeaderByNumber call, no insert, no gauge set and no
\* push, leaves the table, the gauge and the watermark as they were, does not
\* end the process, and leaves the loop where the next tick starts with the
\* tip query again.
C6_Step ==
    (TickStep /\ tipQuery' = "err") =>
            /\ calls' = << >>
            /\ fetched' = fetched
            /\ db' = db
            /\ gauge' = gauge
            /\ lastHeight' = lastHeight
            /\ exitCode' = -1
            /\ pc' = "idle"

C6_TipFailureSkipsTick ==
    /\ [][C6_Step]_vars
    /\ [](tipQuery = "err" /\ pc = "idle" /\ tickerC = 1 => ENABLED (Tick \/ TickMetrics))

\* A failed tip query after the watermark had advanced, the next tick waiting.
C6_Witness ==
    /\ pc = "idle"
    /\ tipQuery = "err"
    /\ tickerC = 1
    /\ lastHeight > w0
    /\ lastHeight = cycleW
    /\ exitCode = -1

\* How many rows the table holds for block number n.
RowsFor(n) == Cardinality({k \in 1..Len(db) : db[k].block_number = n})

\* C7 - Idempotent persistence, as claimed: recording a block number the
\* table already holds is not an error and leaves exactly one row for it.
C7_IdempotentPersistence ==
    rerecorded # "none" =>
        /\ rerecorded = "ok"
        /\ \A k \in 1..Len(db) : RowsFor(db[k].block_number) = 1

\* A cycle is in flight: it observed a tip above the watermark and the
\* watermark has not been set to that tip yet.
CycleInFlight == tipQuery = "ok" /\ currentHeight > lastHeight

\* The process had entered its polling loop.
LoopEntered ==
    IF variant \in Persisting THEN w0 >= 0 ELSE pc \in {"idle", "exited"}

\* C8 - Graceful termination, as claimed: a process that a signal ended
\* after it entered its polling loop exited with code 0, with no cycle cut
\* off.
C8_GracefulTermination ==
    (LoopEntered /\ pc \in {"killed", "exited"}) =>
        exitCode = 0 /\ ~CycleInFlight

\* C9 - Metrics export is optional, as claimed: without a push-gateway
\* address no cycle sets the gauge or pushes.
C9_MetricsOptional ==
    pushGateway = "" =>
        /\ CallsOf("SetGauge") = << >>
        /\ CallsOf("Push") = << >>
        /\ gauge = 0

NoCycleWork == tipQuery = "none" /\ calls = << >> /\ fetched = << >>

\* C11 - Fatal startup, as claimed: with a required flag missing, with the
\* dial (in part_000: every dial) failed, or with the store unreachable, the
\* process never gets past startup: it issues no call of a polling cycle, and
\* where its startup has ended it has exited with a non-zero code.
C11_FatalStartup ==
    /\ MissingRequired =>
          /\ pc \in {"flags", "fatal", "killed"}
          /\ NoCycleWork
    /\ (err # 0 /\ (variant = "part_000" => ~RetryAgain(i))) =>
          /\ pc = "fatal" /\ exitCode = 1
          /\ NoCycleWork
    /\ (variant \in Persisting /\ ~storeUp) =>
          /\ pc \in {"flags", "dial", "opendb", "fatal", "killed"}
          /\ NoCycleWork
    /\ pc = "fatal" => exitCode = 1

\* C12 - Bounded connect retry.  In part_000, connectRPC dials at most
\* MaxDialAttempts times and can always take its next step; main goes on
\* (with a nil error) right after the first successful dial, the failed dials
\* before it being all there were, and nothing dials afterwards; main exits
\* fatally on the dial exactly when MaxDialAttempts dials have failed, the
\* error in hand being that of the last dial.
C12_BoundedConnectRetry ==
    variant = "part_000" =>
        /\ dials <= MaxDialAttempts
        /\ pc = "dial" =>
              /\ dials = i /\ i < MaxDialAttempts
              /\ err = dials
              /\ ENABLED ConnectRPC
        /\ pc \in {"idle", "exited"} =>
              /\ err = 0
              /\ dials = i + 1
        /\ (pc = "fatal" /\ ~MissingRequired) =>
              /\ i = MaxDialAttempts /\ dials = MaxDialAttempts
              /\ err = MaxDialAttempts
        /\ (dials = MaxDialAttempts /\ err # 0) => pc = "fatal"

\* The third dial succeeded after two failures, and the loop has ticked since.
C12_Witness ==
    /\ variant = "part_000"
    /\ pc = "idle"
    /\ i = 2
    /\ dials = 3
    /\ tipQuery = "ok"

\* The latest cycle fetched a header that carries no difficulty.
NilFetched == \E k \in 1..Len(calls) : calls[k].op = "HeaderAt" /\ calls[k].ok /\ calls[k].d = 0

\* C13 - Unusable difficulty is a per-height failure, as claimed: in every
\* program, a cycle that fetched a header without a difficulty has not ended
\* the process, has persisted nothing and set no gauge for that height, and,
\* once over, has attempted the remaining heights of its gap.
C13_UnusableDifficulty ==
    NilFetched =>
        /\ pc \notin {"panic", "fatal", "exited"}
        /\ exitCode \in {-1, 130}
        /\ \A k \in 1..Len(calls) :
              (calls[k].op = "HeaderAt" /\ calls[k].ok /\ calls[k].d = 0) =>
                 \A m \in 1..Len(calls) :
                    calls[m].h = calls[k].h => calls[m].op = "HeaderAt"
        /\ (variant \in Persisting /\ pc = "idle") =>
              Len(CallsOf("HeaderAt")) = currentHeight - cycleW

\* The step ended with a push that failed.
PushFailedStep ==
    /\ calls' # calls
    /\ calls' # << >>
    /\ calls'[Len(calls')].op = "Push"
    /\ ~calls'[Len(calls')].ok

\* C14 - Push failure never affects control flow.  In main.go, the iteration
\* whose push fails has added the row of its height to the table, which stays
\* there, and hands over to the next height when it is below the tip, and
\* otherwise ends the cycle with the watermark at the tip; in a finished cycle
\* every height after one whose push failed has been attempted.  In part_000
\* the tick whose push fails leaves the loop waiting for the next tick.  In
\* neither does the process end.
C14_Step ==
    /\ SubSeq(db', 1, Len(db)) = db
    /\ PushFailedStep =>
          /\ exitCode' = -1
          /\ pc' \in {"idle", "loop"}
          /\ variant = "part_000" => pc' = "idle"
          /\ variant = "main" =>
                /\ pc = "loop"
                /\ calls'[Len(calls')].h = height
                /\ Len(db') = Len(db) + 1
                /\ IF height < currentHeight
                   THEN pc' = "loop" /\ height' = height + 1 /\ lastHeight' = lastHeight
                   ELSE pc' = "idle" /\ lastHeight' = currentHeight
    /\ (variant = "main" /\ pc' = "idle" /\ GapCycle') =>
          \A k \in 1..Len(calls') :
             (calls'[k].op = "Push" /\ ~calls'[k].ok) =>
                \A g \in (calls'[k].h + 1)..currentHeight' :
                   \E m \in 1..Len(calls') :
                      calls'[m].op = "HeaderAt" /\ calls'[m].h = g /\ m > k

C14_PushFailureIsolated == [][C14_Step]_vars

\* A finished cycle of main.go in which the push for one height failed and
\* a later height was persisted and pushed.
C14_Witness ==
    /\ variant = "main"
    /\ pc = "idle"
    /\ GapCycle
    /\ lastHeight = currentHeight
    /\ \E k, m \in 1..Len(calls) :
          /\ calls[k].op = "Push" /\ ~calls[k].ok
          /\ calls[m].op = "Push" /\ calls[m].ok
          /\ calls[m].h > calls[k].h

\* The heights of the latest cycle whose header carried a difficulty.
UsableHeights ==
    {calls[k].h : k \in {j \in 1..Len(calls) :
        calls[j].op = "HeaderAt" /\ calls[j].ok /\ calls[j].d >= 1}}

\* The heights of the latest cycle whose insert succeeded.
PersistedHeights ==
    {calls[k].h : k \in {j \in 1..Len(calls) : calls[j].op = "Insert" /\ calls[j].ok}}

\* The difficulty of the header the latest cycle fetched for height h.
FetchedDifficulty(h) ==
    (CHOOSE c \in {calls[k] : k \in 1..Len(calls)} : c.op = "HeaderAt" /\ c.h = h).d

\* The greatest member of a non-empty set of heights.
Greatest(S) == CHOOSE h \in S : \A g \in S : g <= h

\* The latest cycle set the gauge to the header's difficulty, and pushed,
\* for exactly the heights in S, and the gauge holds the difficulty fetched for
\* the greatest of them.
ExportedExactly(S) ==
    /\ \A h \in S :
          /\ \E k \in 1..Len(calls) : calls[k] = GaugeSet(h, FetchedDifficulty(h))
          /\ \E k \in 1..Len(calls) : calls[k].op = "Push" /\ calls[k].h = h
    /\ \A k \in 1..Len(calls) : calls[k].op \in {"SetGauge", "Push"} => calls[k].h \in S
    /\ S # {} => gauge = FetchedDifficulty(Greatest(S))

\* C15 as claimed: in main.go the gauge is set and a push attempted for every
\* height fetched with a usable difficulty, whether or not its insert
\* succeeded.
C15_GaugeFollowsFetched ==
    (variant = "main" /\ pc \in {"idle", "loop"}) => ExportedExactly(UsableHeights)

\* C15 - Gauge follows the persisted difficulty.  In main.go the gauge is set
\* to the fetched difficulty and a push attempted for exactly the heights of
\* the cycle whose insert succeeded; the gauge then holds the difficulty of the
\* greatest height the cycle has persisted.
C15_GaugeFollowsPersisted ==
    (variant = "main" /\ pc \in {"idle", "loop"}) =>
        /\ PersistedHeights \subseteq UsableHeights
        /\ ExportedExactly(PersistedHeights)

\* A finished cycle that persisted one height and failed to insert a greater
\* one whose header carried another difficulty: the gauge is the former's.
C15_Witness ==
    /\ variant = "main"
    /\ pc = "idle"
    /\ GapCycle
    /\ PersistedHeights # {}
    /\ \E h \in UsableHeights \ PersistedHeights :
          /\ h > Greatest(PersistedHeights)
          /\ FetchedDifficulty(h) # gauge
    /\ gauge = FetchedDifficulty(Greatest(PersistedHeights))

\* The rows the latest cycle has added to the table, in order.
CycleRows ==
    LET n == Len(CallsOf("Insert")) - Len(SelectSeq(calls, LAMBDA c : c.op = "Insert" /\ ~c.ok))
    IN  SubSeq(db, Len(db) - n + 1, Len(db))

\* C16 - Persisted heights stay inside the gap, as claimed: each row a cycle
\* of main.go or part_001 has added carries the height that was requested in
\* its iteration, which lies in (w, t], and the rows are in increasing order
\* of height.
C16_PersistedInsideGap ==
    (variant \in Persisting /\ tipQuery = "ok") =>
        LET ins == SelectSeq(calls, LAMBDA c : c.op = "Insert" /\ c.ok) IN
        /\ Len(CycleRows) = Len(ins)
        /\ \A j \in 1..Len(ins) :
              /\ CycleRows[j].block_number = ins[j].h
              /\ cycleW < CycleRows[j].block_number
              /\ CycleRows[j].block_number <= currentHeight
        /\ \A j, k \in 1..Len(ins) :
              j < k => CycleRows[j].block_number < CycleRows[k].block_number

\* C17 - Cycles never overlap.  ticker.C buffers at most one tick; a tick that
\* arrives while a cycle runs is buffered (or dropped) and changes nothing
\* else; a tick is taken from the channel only by the idle loop, which leaves
\* the channel empty; only the idle loop starts a cycle; and the calls of a
\* running cycle are issued one after another for its current height.
C17_Step ==
    /\ tickerC' \in 0..1
    /\ (pc \in {"loop", "blocked"} /\ tickerC' # tickerC) =>
          /\ tickerC' = 1
          /\ UNCHANGED <<pc, exitCode, lastHeight, currentHeight, tipQuery, height, gauge,
                         db, cycleW, calls, fetched>>
    /\ tickerC' < tickerC => pc = "idle" /\ tickerC' = 0
    /\ pc # "idle" => UNCHANGED <<cycleW, tipQuery, currentHeight>>
    /\ (pc = "loop" /\ calls' # calls) =>
          /\ Len(calls') > Len(calls)
          /\ SubSeq(calls', 1, Len(calls)) = calls
          /\ \A k \in (Len(calls) + 1)..Len(calls') : calls'[k].h = height
    /\ (pc' = "loop" /\ pc # "loop") => pc = "idle" /\ calls' = << >>

C17_CyclesNeverOverlap == [][C17_Step]_vars

\* A tick is buffered while a cycle is between two of its heights.
C17_Witness ==
    /\ pc = "loop"
    /\ tickerC = 1
    /\ calls # << >>
    /\ height <= currentHeight

\* C18 - Every cycle completes, as claimed: no cycle is ever left inside an
\* RPC call that does not return.
C18_EveryCycleCompletes == pc # "blocked"

\* C19 - Metrics-only variant.  A tick of part_000 issues one tip query and,
\* when it succeeds, one header fetch, for the tip; it sets the gauge to the
\* header's difficulty and then attempts one push exactly when both calls
\* succeeded and the header carries a difficulty; otherwise the gauge keeps
\* its value and nothing is pushed; the loop then waits for the next tick.
C19_Step ==
    (variant = "part_000" /\ TickStep) =>
        /\ tipQuery' \in {"err", "ok"}
        /\ pc' = "idle"
        /\ exitCode' = -1
        /\ UNCHANGED <<db, lastHeight, quit>>
        /\ tipQuery' = "err" => calls' = << >>
        /\ tipQuery' = "ok" =>
              /\ Len(calls') >= 1
              /\ calls'[1].op = "HeaderAt"
              /\ calls'[1].h = currentHeight'
        /\ \A k \in 2..Len(calls') : calls'[k].op # "HeaderAt"
        /\ IF tipQuery' = "ok" /\ calls'[1].ok /\ calls'[1].d >= 1
           THEN /\ Len(calls') = 3
                /\ calls'[2] = GaugeSet(currentHeight', calls'[1].d)
                /\ calls'[3].op = "Push"
                /\ calls'[3].h = currentHeight'
                /\ gauge' = calls'[1].d
           ELSE /\ Len(calls') <= 1
                /\ gauge' = gauge

C19_MetricsOnlyTick == [][C19_Step]_vars

\* A tick of part_000 met a header without a difficulty after an earlier tick
\* had set the gauge: the gauge kept its value and the loop is waiting.
C19_Witness ==
    /\ variant = "part_000"
    /\ pc = "idle"
    /\ tipQuery = "ok"
    /\ Len(calls) = 1
    /\ calls[1].op = "HeaderAt"
    /\ calls[1].ok
    /\ calls[1].d = 0
    /\ gauge >= 1
====
